---- MODULE Spec2Model ----
(***************************************************************************)
(* The WebSocket hub of backend/websocket/manager.go (Manager.Start, the   *)
(* Broadcast* senders, WebSocketHandler, Client.readPump, Client.writePump *)
(* and the inbound frame handlers) together with the REST handlers that    *)
(* notify through it (handlers/message.go, handlers/chat.go).              *)
(*                                                                         *)
(* Goroutines are processes with a program counter; a step is the code     *)
(* between two channel operations.  An unbuffered channel (register,       *)
(* unregister, broadcast) is a rendezvous: the sender waits at its send    *)
(* statement and the hub's receive moves both.  The buffered channel       *)
(* Client.send is a bounded sequence plus a closed flag.                   *)
(***************************************************************************)
EXTENDS Integers, Sequences, FiniteSets, TLC

\* ------------------------------------------------------------------ bounds
\* Connections that may ever be opened (each *Client is created once).
NumConns == 2
\* Capacity of Client.send; the code allocates 256 (manager.go:183), the
\* model a small buffer so that saturation is reachable.
SendCap == 2
\* Broadcast envelopes created in one run (Broadcast* calls and reader pumps).
MaxBcast == 3
\* Replies (subscribed, chat_subscribed, pong) one reader pump produces.
MaxReplies == 1
MaxEnvs == 3
\* The limiter of the code is built with NewIPRateLimiter(60, time.Minute);
\* Allow is written for any limit and window.
RlLimit == 2
RlWindow == 2
MaxTime == 4

\* REST requests (SendMessage, CreateChat, MarkAsRead) served in one run.
NumReqs == 2

\* Time, in seconds: the period of writePump's ticker, the read deadline
\* readPump and its pong handler arm, and writePump's write deadline.
PingPeriod == 30
ReadWait == 60
WriteWait == 10

Conns == 1..NumConns
Reqs == 1..NumReqs

\* ---------------------------------------------------------------- messages
\* A serialized envelope: its "type" tag and, for a broadcast, its number in
\* the order in which the hub received the broadcasts (0 for a
\* point-to-client frame and for a message the hub has not received yet).
Msg(kind, id) == [type |-> kind, id |-> id]
NoMsg == Msg("none", 0)

\* Kinds the Broadcast* methods produce.
BroadcastKinds == {"new_message", "chat_created", "message_read",
                   "typing_start", "typing_end"}

\* The close frame writePump writes when its mailbox has been closed.
CloseFrame == Msg("ws_close", 0)

VARIABLES
  clients,     \* Manager.clients: the set of registered *Client
  send,        \* Client.send: queued per connection
  closed,      \* Client.send has been closed
  hpc,         \* WebSocketHandler goroutine, per connection
  rpc,         \* readPump goroutine, per connection
  rout,        \* the frame readPump is about to send
  panicking,   \* readPump is unwinding a panic (its defer still runs)
  rlast,       \* history: why readPump dropped the frame it read last
  wpc,         \* writePump goroutine, per connection
  wire,        \* frames written to the transport, per connection
  pending,     \* Broadcast* calls waiting at `m.broadcast <- msg`, per kind
  crashed,     \* an unrecovered panic has ended the process
  calls,       \* broadcast envelopes created so far
  qpc,         \* a REST handler goroutine: where it is in its handler
  qin,         \* the request that handler is serving
  qresp,       \* the HTTP status it has responded with (0: none yet)
  qmod,        \* MarkAsRead: result.ModifiedCount of its UpdateMany
  chatDocs,    \* the chats collection
  msgDocs,     \* the messages collection
  \* history (never read by the program)
  durable,     \* outcome of each handler's own durable write
  checked,     \* outcome of each handler's chat-membership query
  submitted,   \* handlers that have reached their Broadcast* call
  enq,         \* every frame ever placed in each mailbox, in order
  hubLog,      \* every broadcast the hub received, in order
  sendCloses,  \* number of close(client.send) executions, per connection
  unregBy,     \* pumps that have submitted an Unregister, per connection
  closedBy,    \* the pumps that have called conn.Close(), per connection
  regAt,       \* broadcasts the hub had received when it registered c
  \* one connection in discrete time (see the timed pumps below)
  tick,        \* ticker.C holds a tick
  tickIn,      \* time until the ticker fires next
  tpc,         \* writePump: "select", "ping" (WriteMessage running), "done"
  wleft,       \* time left until the write deadline of the running write
  sincePing,   \* time since the last ping was written (or the pump started)
  pinged,      \* history: a ping has been written
  trpc,        \* readPump: "read" or "done"
  deadlineIn,  \* time left until the read deadline
  pongOwed,    \* the peer has received a ping it has not answered
  sinceFrame,  \* time since the last application frame was received
  gapOk,       \* history: the peer's frames were all less than ReadWait apart
  timedOut,    \* history: readPump ended on the read deadline
  tclosed,     \* a timed pump has closed the transport
  \* the control loop statement by statement (see the locked hub below)
  hubpc,       \* Manager.Start: "select", "range" (in the loop), "delete"
  todo,        \* the clients the range loop has not reached yet
  hmsg,        \* the message the range loop is delivering
  victim,      \* the client whose mailbox the loop closed and will delete
  qheld,       \* a GetConnectedUsers call holds m.mu.RLock()
  qret,        \* what the last GetConnectedUsers call returned (-1: none)
  pingBusy,    \* history: c's writer wrote a ping with frames in its mailbox
  \* the envelopes built for a connection, in two runs side by side
  boundId,     \* Client.userID, set by WebSocketHandler ("" before)
  outA,        \* the envelopes built so far in the first run
  outB,        \* the same in a run whose frames claim other userIds
  forged,      \* history: a frame claimed a userId that is not the bound one
  \* middleware/ratelimit.go
  rlNow,       \* time.Now(), in ticks
  rlReqs,      \* IPRateLimiter.requests
  rlAcc,       \* history: per IP the times of the calls that returned true
  rlLast       \* history: the last call, its result and the map before it

vars == <<clients, send, closed, hpc, rpc, rout, panicking, rlast, wpc, wire,
          pending, crashed, calls, enq, hubLog, sendCloses, unregBy, closedBy,
          regAt, qpc, qin, qresp, qmod, chatDocs, msgDocs, durable,
          submitted, checked, tick, tickIn, tpc, wleft, sincePing, pinged,
          trpc, deadlineIn, pongOwed, sinceFrame, gapOk, timedOut, tclosed,
          hubpc, todo, hmsg, victim, qheld, qret, pingBusy,
          boundId, outA, outB, forged, rlNow, rlReqs, rlAcc, rlLast>>

idVars == <<boundId, outA, outB, forged>>

rlVars == <<rlNow, rlReqs, rlAcc, rlLast>>

pingVars == <<pingBusy>>

lockVars == <<hubpc, todo, hmsg, victim, qheld, qret>>

timeVars == <<tick, tickIn, tpc, wleft, sincePing, pinged, trpc, deadlineIn,
              pongOwed, sinceFrame, gapOk, timedOut, tclosed>>

hubVars == <<clients>>
boxVars == <<send, closed, enq, sendCloses>>
handlerVars == <<hpc>>
readerVars == <<rpc, rout, panicking, rlast>>
writerVars == <<wpc, wire>>
connVars == <<closedBy>>
callerVars == <<pending>>
webVars == <<qpc, qin, qresp, qmod, chatDocs, msgDocs, durable, submitted,
            checked>>
wsVars == <<clients, send, closed, hpc, rpc, rout, panicking, rlast, wpc, wire,
            pending, crashed, calls, enq, hubLog, sendCloses, unregBy,
            closedBy, regAt>>

\* Users of the application, and the ids a request can name: chat 0 and
\* message 0 exist from the start, chat r and message r are the documents
\* request r inserts.
Users == {"a", "b", "x"}
DocIds == 0..NumReqs
Handlers == {"SendMessage", "CreateChat", "MarkAsRead"}

\* What a request carries: its handler, the authenticated user, and the
\* chatId (SendMessage), message id (MarkAsRead) or participant (CreateChat)
\* it names; valid is false when binding or an id fails to parse.
Requests ==
  [h : {"SendMessage"}, user : Users, chat : DocIds, msg : {0},
   part : {""}, valid : BOOLEAN, typing : {FALSE}]
  \cup [h : {"MarkAsRead"}, user : Users, chat : {0}, msg : DocIds,
        part : {""}, valid : BOOLEAN, typing : {FALSE}]
  \cup [h : {"CreateChat"}, user : Users, chat : {0}, msg : {0},
        part : Users, valid : BOOLEAN, typing : {FALSE}]
NoRequest == [h |-> "none", user |-> "", chat |-> 0, msg |-> 0, part |-> "",
              valid |-> FALSE, typing |-> FALSE]

\* A SendTypingIndicator request: the chatId and the typing flag of its body.
TypingRequests ==
  [h : {"SendTypingIndicator"}, user : Users, chat : DocIds, msg : {0},
   part : {""}, valid : BOOLEAN, typing : BOOLEAN]

\* The envelopes of one run: at most MaxEnvs are built.
IdChats == {"c1", "c2"}
Tokens == Users \cup {""}

\* Callers of the rate limiter, and the state before the first call.
IPs == {"p", "q"}
NoCall == [ip |-> "", ok |-> TRUE, at |-> 0, before |-> [ip \in IPs |-> <<>>]]

\* NewManager and NewIPRateLimiter, and no connection opened yet.
Init ==
  /\ clients = {}
  /\ send = [c \in Conns |-> <<>>]
  /\ closed = [c \in Conns |-> FALSE]
  /\ hpc = [c \in Conns |-> "new"]
  /\ rpc = [c \in Conns |-> "idle"]
  /\ rout = [c \in Conns |-> NoMsg]
  /\ panicking = [c \in Conns |-> FALSE]
  /\ rlast = [c \in Conns |-> "none"]
  /\ wpc = [c \in Conns |-> "idle"]
  /\ wire = [c \in Conns |-> <<>>]
  /\ pending = [k \in BroadcastKinds |-> 0]
  /\ crashed = FALSE
  /\ calls = 0
  /\ enq = [c \in Conns |-> <<>>]
  /\ hubLog = <<>>
  /\ sendCloses = [c \in Conns |-> 0]
  /\ unregBy = [c \in Conns |-> {}]
  /\ closedBy = [c \in Conns |-> {}]
  /\ regAt = [c \in Conns |-> -1]
  /\ qpc = [r \in Reqs |-> "idle"]
  /\ qin = [r \in Reqs |-> NoRequest]
  /\ qresp = [r \in Reqs |-> 0]
  /\ qmod = [r \in Reqs |-> 0]
  /\ chatDocs = {[id |-> 0, parts |-> {"a", "b"}]}
  /\ msgDocs = {[id |-> 0, chat |-> 0, sender |-> "b", isRead |-> FALSE]}
  /\ durable = [r \in Reqs |-> "none"]
  /\ submitted = {}
  /\ checked = [r \in Reqs |-> "none"]
  /\ tick = FALSE
  /\ tickIn = PingPeriod
  /\ tpc = "select"
  /\ wleft = 0
  /\ sincePing = 0
  /\ pinged = FALSE
  /\ trpc = "read"
  /\ deadlineIn = ReadWait
  /\ pongOwed = FALSE
  /\ sinceFrame = 0
  /\ gapOk = TRUE
  /\ timedOut = FALSE
  /\ tclosed = FALSE
  /\ hubpc = "select"
  /\ todo = {}
  /\ hmsg = NoMsg
  /\ victim = 0
  /\ qheld = FALSE
  /\ qret = -1
  /\ pingBusy = [c \in Conns |-> FALSE]
  /\ boundId = [c \in Conns |-> ""]
  /\ outA = <<>>
  /\ outB = <<>>
  /\ forged = FALSE
  /\ rlNow = 0
  /\ rlReqs = [ip \in IPs |-> <<>>]
  /\ rlAcc = [ip \in IPs |-> <<>>]
  /\ rlLast = NoCall

\* The transport has been closed by one of the pumps.
ConnClosed(c) == closedBy[c] # {}

\* ------------------------------------------------------- channel primitives
\* A send on the buffered channel can proceed when the buffer has a free slot.
HasRoom(q) == Len(q) < SendCap

\* Mutant of ChanHead: the receiver takes the newest element.
ChanHeadNewest(q) == q[Len(q)]

\* The receiver of a buffered channel takes the oldest element.
ChanHead(q) == Head(q)
ChanRest(q) == Tail(q)

\* ------------------------------------------------------------ Manager.Start
\* The control loop is one goroutine and none of its cases blocks, so each
\* case runs to completion as one step.  The offers of the range loop touch
\* one mailbox each and commute with the steps of every other goroutine, so
\* the loop as one step has the same outcomes as the loop interleaved.

\* Mutant of HubRegister: registration replays the last broadcast to the
\* new client.
HubRegisterReplay(c) ==
  /\ ~crashed
  /\ hpc[c] = "register"
  /\ clients' = clients \cup {c}
  /\ hpc' = [hpc EXCEPT ![c] = "welcome"]
  /\ regAt' = [regAt EXCEPT ![c] = Len(hubLog)]
  /\ IF hubLog # <<>>
       THEN /\ send' = [send EXCEPT ![c] = Append(@, hubLog[Len(hubLog)].msg)]
            /\ enq' = [enq EXCEPT ![c] = Append(@, hubLog[Len(hubLog)].msg)]
       ELSE UNCHANGED <<send, enq>>
  /\ UNCHANGED <<pingVars, idVars, rlVars, webVars, timeVars, lockVars, closed, sendCloses, readerVars, writerVars, connVars,
                 callerVars, crashed, calls, hubLog, unregBy>>

\* case client := <-m.register
HubRegister(c) ==
  /\ ~crashed
  /\ hpc[c] = "register"
  /\ clients' = clients \cup {c}
  /\ hpc' = [hpc EXCEPT ![c] = "welcome"]
  /\ regAt' = [regAt EXCEPT ![c] = Len(hubLog)]
  /\ UNCHANGED <<pingVars, idVars, rlVars, webVars, timeVars, lockVars, boxVars, readerVars, writerVars, connVars, callerVars,
                 crashed, calls, hubLog, unregBy>>

\* Mutant of IsRegistered: the unregister case closes without looking.
IsRegisteredAlways(cl, c) == TRUE

\* The unregister case deletes and closes only when the client is in the map.
IsRegistered(cl, c) == c \in cl

\* case client := <-m.unregister, the sender being readPump's deferred
\* function.  close() of an already closed channel panics in the hub.
HubUnregister(c) ==
  /\ ~crashed
  /\ rpc[c] = "unregister"
  /\ IF IsRegistered(clients, c)
       THEN /\ clients' = clients \ {c}
            /\ closed' = [closed EXCEPT ![c] = TRUE]
            /\ sendCloses' = [sendCloses EXCEPT ![c] = @ + 1]
            /\ crashed' = closed[c]
       ELSE UNCHANGED <<clients, closed, sendCloses, crashed>>
  /\ rpc' = [rpc EXCEPT ![c] = "close"]
  /\ unregBy' = [unregBy EXCEPT ![c] = @ \cup {"reader"}]
  /\ UNCHANGED <<pingVars, idVars, rlVars, webVars, timeVars, lockVars, send, enq, handlerVars, rout, panicking, rlast, writerVars,
                 connVars, callerVars, calls, hubLog, regAt>>

\* Mutant of Accepting: the range loop stops at the first full mailbox.
AcceptingUntilFull(cl, q) ==
  IF \E c \in cl : ~HasRoom(q[c]) THEN {} ELSE cl

\* The clients whose `case client.send <- message` is taken, and those for
\* which the select falls to `default` (close and delete).
Accepting(cl, q) == {c \in cl : HasRoom(q[c])}
Dropping(cl, q) == {c \in cl : ~HasRoom(q[c])}

\* Mutant of HubFanOut: the envelope goes to the front of the mailbox of the
\* first client and to the back of the others.
HubFanOutFrontFirst(kind) ==
  LET msg == Msg(kind, Len(hubLog) + 1)
      acc == Accepting(clients, send)
      drop == Dropping(clients, send)
      Put(q, c) == IF c = 1 THEN <<msg>> \o q ELSE Append(q, msg)
  IN /\ send' = [c \in Conns |-> IF c \in acc THEN Put(send[c], c) ELSE send[c]]
     /\ enq' = [c \in Conns |-> IF c \in acc THEN Put(enq[c], c) ELSE enq[c]]
     /\ closed' = [c \in Conns |-> closed[c] \/ c \in drop]
     /\ sendCloses' = [c \in Conns |-> IF c \in drop THEN sendCloses[c] + 1
                                                    ELSE sendCloses[c]]
     /\ clients' = clients \ drop
     /\ crashed' = \E c \in clients : closed[c]
     /\ hubLog' = Append(hubLog,
                    [msg |-> msg, present |-> clients,
                     full |-> {c \in clients : Len(send[c]) >= SendCap}])

\* case message := <-m.broadcast: the range loop over m.clients.  A send on a
\* closed channel panics.
HubFanOut(kind) ==
  LET msg == Msg(kind, Len(hubLog) + 1)
      acc == Accepting(clients, send)
      drop == Dropping(clients, send)
  IN /\ send' = [c \in Conns |-> IF c \in acc THEN Append(send[c], msg)
                                              ELSE send[c]]
     /\ enq' = [c \in Conns |-> IF c \in acc THEN Append(enq[c], msg)
                                             ELSE enq[c]]
     /\ closed' = [c \in Conns |-> closed[c] \/ c \in drop]
     /\ sendCloses' = [c \in Conns |-> IF c \in drop THEN sendCloses[c] + 1
                                                    ELSE sendCloses[c]]
     /\ clients' = clients \ drop
     /\ crashed' = \E c \in clients : closed[c]
     /\ hubLog' = Append(hubLog,
                    [msg |-> msg, present |-> clients,
                     full |-> {c \in clients : Len(send[c]) >= SendCap}])

\* ... the sender being a Broadcast* method called by a REST handler
HubRecvBroadcast(k) ==
  /\ ~crashed
  /\ pending[k] > 0
  /\ HubFanOut(k)
  /\ pending' = [pending EXCEPT ![k] = @ - 1]
  /\ UNCHANGED <<pingVars, idVars, rlVars, webVars, timeVars, lockVars, handlerVars, readerVars, writerVars, connVars, calls, unregBy, regAt>>

\* Mutant of HubRecvRebroadcast: the range loop skips the client whose reader
\* pump sent the envelope.
HubRecvRebroadcastOthers(c) ==
  /\ ~crashed
  /\ rpc[c] = "bcast"
  /\ LET msg == Msg(rout[c].type, Len(hubLog) + 1)
         acc == Accepting(clients \ {c}, send)
         drop == Dropping(clients \ {c}, send)
     IN /\ send' = [d \in Conns |-> IF d \in acc THEN Append(send[d], msg)
                                                 ELSE send[d]]
        /\ enq' = [d \in Conns |-> IF d \in acc THEN Append(enq[d], msg)
                                                ELSE enq[d]]
        /\ closed' = [d \in Conns |-> closed[d] \/ d \in drop]
        /\ sendCloses' = [d \in Conns |-> IF d \in drop THEN sendCloses[d] + 1
                                                       ELSE sendCloses[d]]
        /\ clients' = clients \ drop
        /\ crashed' = \E d \in clients \ {c} : closed[d]
        /\ hubLog' = Append(hubLog,
                       [msg |-> msg, present |-> clients,
                        full |-> {d \in clients : Len(send[d]) >= SendCap}])
  /\ rpc' = [rpc EXCEPT ![c] = "read"]
  /\ rout' = [rout EXCEPT ![c] = NoMsg]
  /\ UNCHANGED <<pingVars, idVars, rlVars, webVars, timeVars, lockVars, handlerVars, panicking, rlast, writerVars, connVars, callerVars,
                 calls, unregBy, regAt>>

\* ... the sender being a reader pump (handleTypingStart, handleTypingEnd,
\* handleMessageRead)
HubRecvRebroadcast(c) ==
  /\ ~crashed
  /\ rpc[c] = "bcast"
  /\ HubFanOut(rout[c].type)
  /\ rpc' = [rpc EXCEPT ![c] = "read"]
  /\ rout' = [rout EXCEPT ![c] = NoMsg]
  /\ UNCHANGED <<pingVars, idVars, rlVars, webVars, timeVars, lockVars, handlerVars, panicking, rlast, writerVars, connVars, callerVars,
                 calls, unregBy, regAt>>

\* ------------------------------------------------------- Broadcast* callers
\* BroadcastNewMessage, BroadcastChatCreated, BroadcastMessageRead,
\* BroadcastTypingStart, BroadcastTypingEnd: wrap the payload, marshal it
\* (the payloads hold strings, numbers and booleans only, so json.Marshal
\* cannot fail) and wait at `m.broadcast <- msg`; the call returns when the
\* hub has received the message.
CallBroadcast(kind) ==
  /\ ~crashed
  /\ calls < MaxBcast
  /\ calls' = calls + 1
  /\ pending' = [pending EXCEPT ![kind] = @ + 1]
  /\ UNCHANGED <<pingVars, idVars, rlVars, webVars, timeVars, lockVars, hubVars, boxVars, handlerVars, readerVars, writerVars,
                 connVars, crashed, hubLog, unregBy, regAt>>

\* --------------------------------------------------------- WebSocketHandler
\* Mutant of Handshake: a handler whose client has been removed from the
\* registry submits the same client for registration again.
HandshakeReuse(c, ok) ==
  /\ ~crashed
  /\ hpc[c] = "new" \/ (hpc[c] = "started" /\ c \notin clients)
  /\ hpc' = [hpc EXCEPT ![c] = IF ok THEN "register" ELSE @]
  /\ UNCHANGED <<pingVars, idVars, rlVars, webVars, timeVars, lockVars, hubVars, boxVars, readerVars, writerVars, connVars,
                 callerVars, crashed, calls, hubLog, unregBy, regAt>>

\* The token check, the upgrade and the construction of the Client; the
\* handler then waits at `manager.register <- client`.  With an empty token or
\* a failed upgrade it returns and no Client exists.
Handshake(c, ok) ==
  /\ ~crashed
  /\ hpc[c] = "new"
  /\ hpc' = [hpc EXCEPT ![c] = IF ok THEN "register" ELSE "new"]
  /\ UNCHANGED <<pingVars, idVars, rlVars, webVars, timeVars, lockVars, hubVars, boxVars, readerVars, writerVars, connVars,
                 callerVars, crashed, calls, hubLog, unregBy, regAt>>

\* `client.send <- msg` with the connected envelope, a blocking send, then the
\* two `go` statements.  The send waits while the mailbox is full and panics
\* when the hub has closed it; the HTTP server recovers a handler's panic, so
\* the pumps are then never started.
HandlerWelcome(c) ==
  /\ ~crashed
  /\ hpc[c] = "welcome"
  /\ closed[c] \/ HasRoom(send[c])
  /\ IF closed[c]
       THEN /\ hpc' = [hpc EXCEPT ![c] = "panicked"]
            /\ UNCHANGED <<send, enq, rpc, wpc>>
       ELSE /\ send' = [send EXCEPT ![c] = Append(@, Msg("connected", 0))]
            /\ enq' = [enq EXCEPT ![c] = Append(@, Msg("connected", 0))]
            /\ hpc' = [hpc EXCEPT ![c] = "started"]
            /\ rpc' = [rpc EXCEPT ![c] = "read"]
            /\ wpc' = [wpc EXCEPT ![c] = "select"]
  /\ UNCHANGED <<pingVars, idVars, rlVars, webVars, timeVars, lockVars, hubVars, closed, sendCloses, rout, panicking, rlast, wire,
                 connVars, callerVars, crashed, calls, hubLog,
                 unregBy, regAt>>

\* ---------------------------------------------------------- Client.readPump
\* Inbound frames: the "type" of the decoded envelope and whether the fields
\* its handler type-asserts are present ("garbage" is a frame json.Unmarshal
\* rejects; "other" any type the switch does not name).
FrameTypes == {"subscribe", "subscribe_chat", "typing_start", "typing_end",
               "message_read", "ping", "other", "garbage"}
Frames == [type : FrameTypes, fields : BOOLEAN]

ReplyKinds == {"subscribed", "chat_subscribed", "pong"}

\* Replies the reader pump of c has placed in its mailbox so far.
Replies(c) == Cardinality({i \in DOMAIN enq[c] : enq[c][i].type \in ReplyKinds})

\* Mutant of Dispatch: a frame that does not decode or whose type the switch
\* does not name is answered on the connection's mailbox.
DispatchAnswersUnknown(f) ==
  IF f.type \in {"garbage", "other"}
    THEN [act |-> "reply", kind |-> "pong"]
    ELSE [act |-> "none", kind |-> "none"]

\* What the switch of readPump does with a frame: "reply" (a send on the
\* connection's own mailbox), "bcast" (a send on Manager.broadcast) or "none".
Dispatch(f) ==
  CASE f.type = "garbage" -> [act |-> "none", kind |-> "none"]
    [] f.type = "subscribe" ->
         IF f.fields THEN [act |-> "reply", kind |-> "subscribed"]
                     ELSE [act |-> "none", kind |-> "none"]
    [] f.type = "subscribe_chat" ->
         IF f.fields THEN [act |-> "reply", kind |-> "chat_subscribed"]
                     ELSE [act |-> "none", kind |-> "none"]
    [] f.type \in {"typing_start", "typing_end", "message_read"} ->
         IF f.fields THEN [act |-> "bcast", kind |-> f.type]
                     ELSE [act |-> "none", kind |-> "none"]
    [] f.type = "ping" -> [act |-> "reply", kind |-> "pong"]
    [] OTHER -> [act |-> "none", kind |-> "none"]

\* What is wrong with an inbound frame: "malformed" (json.Unmarshal into the
\* map fails), "unknown" (a type the switch does not name), "incomplete" (a
\* named type without the payload its handler asserts), or "none".
FrameDefect(f) ==
  CASE f.type = "garbage" -> "malformed"
    [] f.type = "other" -> "unknown"
    [] f.type \in {"subscribe", "subscribe_chat", "typing_start", "typing_end",
                   "message_read"} /\ ~f.fields -> "incomplete"
    [] OTHER -> "none"

\* c.conn.ReadMessage() returns a frame (only while the transport is open);
\* the frame is decoded and dispatched.
ReaderFrame(c, f) ==
  /\ ~crashed
  /\ rpc[c] = "read"
  /\ ~ConnClosed(c)
  /\ LET d == Dispatch(f) IN
       CASE d.act = "reply" ->
              /\ Replies(c) < MaxReplies
              /\ rpc' = [rpc EXCEPT ![c] = "reply"]
              /\ rout' = [rout EXCEPT ![c] = Msg(d.kind, 0)]
              /\ UNCHANGED calls
         [] d.act = "bcast" ->
              /\ calls < MaxBcast
              /\ calls' = calls + 1
              /\ rpc' = [rpc EXCEPT ![c] = "bcast"]
              /\ rout' = [rout EXCEPT ![c] = Msg(d.kind, 0)]
         [] OTHER -> UNCHANGED <<rpc, rout, calls>>
  /\ rlast' = [rlast EXCEPT ![c] = FrameDefect(f)]
  /\ UNCHANGED <<pingVars, idVars, rlVars, webVars, timeVars, lockVars, hubVars, boxVars, handlerVars, panicking, writerVars,
                 connVars, callerVars, crashed, hubLog, unregBy, regAt>>

\* Mutant of ReaderError: on a read error the pump deletes its client from
\* Manager.clients itself before it unregisters.
ReaderErrorDeletes(c) ==
  /\ ~crashed
  /\ rpc[c] = "read"
  /\ rpc' = [rpc EXCEPT ![c] = "unregister"]
  /\ clients' = clients \ {c}
  /\ UNCHANGED <<pingVars, idVars, rlVars, webVars, timeVars, lockVars, boxVars, handlerVars, rout, panicking, rlast, writerVars,
                 connVars, callerVars, crashed, calls, hubLog,
                 unregBy, regAt>>

\* c.conn.ReadMessage() returns an error (peer gone, read deadline, frame over
\* the read limit, transport closed by writePump): break, and the deferred
\* function waits at `c.manager.unregister <- c`.
ReaderError(c) ==
  /\ ~crashed
  /\ rpc[c] = "read"
  /\ rpc' = [rpc EXCEPT ![c] = "unregister"]
  /\ UNCHANGED <<pingVars, idVars, rlVars, webVars, timeVars, lockVars, hubVars, boxVars, handlerVars, rout, panicking, rlast, writerVars,
                 connVars, callerVars, crashed, calls, hubLog,
                 unregBy, regAt>>

\* `c.send <- msg` in handleSubscribe, handleSubscribeChat and sendPong: a
\* blocking send.  It waits while the mailbox is full; on a closed mailbox it
\* panics, and the deferred function of readPump runs while the panic unwinds.
ReaderReply(c) ==
  /\ ~crashed
  /\ rpc[c] = "reply"
  /\ closed[c] \/ HasRoom(send[c])
  /\ IF closed[c]
       THEN /\ panicking' = [panicking EXCEPT ![c] = TRUE]
            /\ rpc' = [rpc EXCEPT ![c] = "unregister"]
            /\ UNCHANGED <<send, enq>>
       ELSE /\ send' = [send EXCEPT ![c] = Append(@, rout[c])]
            /\ enq' = [enq EXCEPT ![c] = Append(@, rout[c])]
            /\ rpc' = [rpc EXCEPT ![c] = "read"]
            /\ UNCHANGED panicking
  /\ rout' = [rout EXCEPT ![c] = NoMsg]
  /\ UNCHANGED <<pingVars, idVars, rlVars, webVars, timeVars, lockVars, hubVars, closed, sendCloses, handlerVars, writerVars, rlast,
                 connVars, callerVars, crashed, calls, hubLog,
                 unregBy, regAt>>

\* c.conn.Close() in readPump's deferred function, after the unregister send.
\* A panic that was unwinding is not recovered: the process ends.
ReaderClose(c) ==
  /\ ~crashed
  /\ rpc[c] = "close"
  /\ rpc' = [rpc EXCEPT ![c] = "done"]
  /\ closedBy' = [closedBy EXCEPT ![c] = @ \cup {"reader"}]
  /\ crashed' = panicking[c]
  /\ UNCHANGED <<pingVars, idVars, rlVars, webVars, timeVars, lockVars, hubVars, boxVars, handlerVars, rout, panicking, rlast, writerVars,
                 callerVars, calls, hubLog, unregBy, regAt>>

\* --------------------------------------------------------- Client.writePump
\* return from writePump: the deferred function stops the ticker and closes
\* the transport.  It submits nothing to the hub.
WriterExit(c) ==
  /\ wpc' = [wpc EXCEPT ![c] = "done"]
  /\ closedBy' = [closedBy EXCEPT ![c] = @ \cup {"writer"}]

\* case message, ok := <-c.send with ok true: the frame is written with
\* NextWriter / Write / Close; a failed write (always, once the transport is
\* closed) returns.
WriterSend(c, wok) ==
  /\ ~crashed
  /\ wpc[c] = "select"
  /\ send[c] # <<>>
  /\ send' = [send EXCEPT ![c] = ChanRest(@)]
  /\ IF wok /\ ~ConnClosed(c)
       THEN /\ wire' = [wire EXCEPT ![c] = Append(@, ChanHead(send[c]))]
            /\ UNCHANGED <<wpc, connVars>>
       ELSE /\ WriterExit(c)
            /\ UNCHANGED wire
  /\ UNCHANGED <<pingVars, idVars, rlVars, webVars, timeVars, lockVars, hubVars, closed, enq, sendCloses, handlerVars, readerVars,
                 callerVars, crashed, calls, hubLog, unregBy, regAt>>

\* case message, ok := <-c.send with ok false (mailbox closed and drained):
\* a close frame is written, its error ignored, and writePump returns.
WriterClosed(c) ==
  /\ ~crashed
  /\ wpc[c] = "select"
  /\ send[c] = <<>>
  /\ closed[c]
  /\ wire' = [wire EXCEPT ![c] =
                IF ~ConnClosed(c) THEN Append(@, CloseFrame) ELSE @]
  /\ WriterExit(c)
  /\ UNCHANGED <<pingVars, idVars, rlVars, webVars, timeVars, lockVars, hubVars, boxVars, handlerVars, readerVars, callerVars,
                 crashed, calls, hubLog, unregBy, regAt>>

\* case <-ticker.C: Go's select takes this case whenever the ticker has
\* fired, whatever the mailbox holds.  A written ping carries no data and
\* leaves the mailbox as it is; a failed write returns.
WriterPing(c, wok) ==
  /\ ~crashed
  /\ wpc[c] = "select"
  /\ IF wok /\ ~ConnClosed(c)
       THEN /\ pingBusy' = [pingBusy EXCEPT ![c] = @ \/ send[c] # <<>>]
            /\ UNCHANGED <<wpc, connVars>>
       ELSE /\ WriterExit(c)
            /\ UNCHANGED pingBusy
  /\ UNCHANGED <<idVars, rlVars, webVars, timeVars, lockVars, hubVars, boxVars,
                 handlerVars, readerVars, wire, callerVars, crashed, calls,
                 hubLog, unregBy, regAt>>

\* ------------------------------------------- handlers/message.go, chat.go
\* Each database call is one step and may fail (dbok false: the context
\* timed out or the store is unreachable).

\* c.JSON(code, ...) followed by return.
Respond(r, code) ==
  /\ qpc' = [qpc EXCEPT ![r] = "done"]
  /\ qresp' = [qresp EXCEPT ![r] = code]

\* The chat the message named by a MarkAsRead request belongs to.
ChatOfMsg(id) == (CHOOSE m \in msgDocs : m.id = id).chat

\* Mutant of IsParticipant: the filter names the chat only.
IsParticipantAnyUser(user, chat) == \E d \in chatDocs : d.id = chat

\* {"_id": chat, "participants": user} matches a document.
IsParticipant(user, chat) ==
  \E d \in chatDocs : d.id = chat /\ user \in d.parts

\* A request arrives: binding and id parsing (400 / 401 on failure), and for
\* CreateChat the participant list, which must name someone else.
StartRequest(r, q) ==
  /\ ~crashed
  /\ qpc[r] = "idle"
  /\ IF ~q.valid \/ (q.h = "CreateChat" /\ q.part = q.user)
       THEN /\ Respond(r, 400)
            /\ UNCHANGED qin
       ELSE /\ qin' = [qin EXCEPT ![r] = q]
            /\ qpc' = [qpc EXCEPT ![r] =
                         CASE q.h = "SendMessage" -> "sm_member"
                           [] q.h = "MarkAsRead" -> "mr_find"
                           [] OTHER -> "cc_find"]
            /\ UNCHANGED qresp
  /\ UNCHANGED <<pingVars, idVars, rlVars, wsVars, timeVars, lockVars, qmod, chatDocs, msgDocs, durable, submitted, checked>>

\* SendMessage: chatsColl.FindOne with the membership filter.
SmMember(r, dbok) ==
  /\ ~crashed
  /\ qpc[r] = "sm_member"
  /\ IF ~dbok THEN Respond(r, 500)
     ELSE IF ~IsParticipant(qin[r].user, qin[r].chat) THEN Respond(r, 403)
     ELSE /\ qpc' = [qpc EXCEPT ![r] = "sm_insert"]
          /\ UNCHANGED qresp
  /\ checked' = [checked EXCEPT ![r] =
                   IF ~dbok THEN "error"
                   ELSE IF IsParticipant(qin[r].user, qin[r].chat)
                     THEN "member" ELSE "denied"]
  /\ UNCHANGED <<pingVars, idVars, rlVars, wsVars, timeVars, lockVars, qin, qmod, chatDocs, msgDocs, durable, submitted>>

\* Mutant of SmAfterInsert: the handler goes on to broadcast whatever
\* InsertOne returned.
SmAfterInsertAlways(dbok) == "sm_notify"

\* SendMessage after messagesColl.InsertOne: on an error it responds 500 and
\* returns, otherwise it goes on to BroadcastNewMessage.
SmAfterInsert(dbok) == IF dbok THEN "sm_notify" ELSE "done"

\* SendMessage: messagesColl.InsertOne, then the update of the chat's last
\* message and the lookup of the sender (their errors are ignored), up to
\* the call of BroadcastNewMessage.
SmInsert(r, dbok) ==
  /\ ~crashed
  /\ qpc[r] = "sm_insert"
  /\ UNCHANGED checked
  /\ msgDocs' = IF dbok
                  THEN msgDocs \cup {[id |-> r, chat |-> qin[r].chat,
                                      sender |-> qin[r].user, isRead |-> FALSE]}
                  ELSE msgDocs
  /\ durable' = [durable EXCEPT ![r] = IF dbok THEN "ok" ELSE "failed"]
  /\ qpc' = [qpc EXCEPT ![r] = SmAfterInsert(dbok)]
  /\ qresp' = [qresp EXCEPT ![r] = IF SmAfterInsert(dbok) = "done" THEN 500 ELSE @]
  /\ submitted' = IF SmAfterInsert(dbok) = "sm_notify"
                    THEN submitted \cup {r} ELSE submitted
  /\ UNCHANGED <<pingVars, idVars, rlVars, wsVars, timeVars, lockVars, qin, qmod, chatDocs>>

\* MarkAsRead: messagesColl.FindOne by message id; any error is a 404.
MrFind(r, dbok) ==
  /\ ~crashed
  /\ qpc[r] = "mr_find"
  /\ UNCHANGED checked
  /\ IF dbok /\ \E m \in msgDocs : m.id = qin[r].msg
       THEN /\ qpc' = [qpc EXCEPT ![r] = "mr_member"]
            /\ UNCHANGED qresp
       ELSE Respond(r, 404)
  /\ UNCHANGED <<pingVars, idVars, rlVars, wsVars, timeVars, lockVars, qin, qmod, chatDocs, msgDocs, durable, submitted>>

\* MarkAsRead: chatsColl.CountDocuments with the membership filter.
MrMember(r, dbok) ==
  /\ ~crashed
  /\ qpc[r] = "mr_member"
  /\ IF dbok /\ IsParticipant(qin[r].user, ChatOfMsg(qin[r].msg))
       THEN /\ qpc' = [qpc EXCEPT ![r] = "mr_update"]
            /\ UNCHANGED qresp
       ELSE Respond(r, 403)
  /\ checked' = [checked EXCEPT ![r] =
                   IF ~dbok THEN "error"
                   ELSE IF IsParticipant(qin[r].user, ChatOfMsg(qin[r].msg))
                     THEN "member" ELSE "denied"]
  /\ UNCHANGED <<pingVars, idVars, rlVars, wsVars, timeVars, lockVars, qin, qmod, chatDocs, msgDocs, durable, submitted>>

\* The documents MarkAsRead's UpdateMany filter matches.
UnreadFromPartner(user, chat) ==
  {m \in msgDocs : m.chat = chat /\ m.sender # user /\ ~m.isRead}

\* Mutant of NotifiesRead: the read receipt is built whatever was modified.
NotifiesReadAlways(modified) == TRUE

\* if wsManager != nil && result.ModifiedCount > 0 (wsManager is set at
\* startup).
NotifiesRead(modified) == modified > 0

\* MarkAsRead: messagesColl.UpdateMany; on an error 500, with nothing
\* modified 200 without a broadcast.
MrUpdate(r, dbok) ==
  /\ ~crashed
  /\ qpc[r] = "mr_update"
  /\ UNCHANGED checked
  /\ LET hit == UnreadFromPartner(qin[r].user, ChatOfMsg(qin[r].msg)) IN
       IF ~dbok
         THEN /\ Respond(r, 500)
              /\ durable' = [durable EXCEPT ![r] = "failed"]
              /\ UNCHANGED <<msgDocs, qmod>>
         ELSE /\ msgDocs' = (msgDocs \ hit)
                              \cup {[m EXCEPT !.isRead = TRUE] : m \in hit}
              /\ qmod' = [qmod EXCEPT ![r] = Cardinality(hit)]
              /\ durable' = [durable EXCEPT ![r] = "ok"]
              /\ IF NotifiesRead(Cardinality(hit))
                   THEN /\ qpc' = [qpc EXCEPT ![r] = "mr_collect"]
                        /\ UNCHANGED qresp
                   ELSE Respond(r, 200)
  /\ UNCHANGED <<pingVars, idVars, rlVars, wsVars, timeVars, lockVars, qin, chatDocs, submitted>>

\* MarkAsRead: messagesColl.Find and cursor.All collect the ids for the read
\* receipt; when either fails the receipt is skipped and the response is
\* still 200.
MrCollect(r, dbok) ==
  /\ ~crashed
  /\ qpc[r] = "mr_collect"
  /\ UNCHANGED checked
  /\ IF dbok
       THEN /\ qpc' = [qpc EXCEPT ![r] = "mr_notify"]
            /\ submitted' = submitted \cup {r}
            /\ UNCHANGED qresp
       ELSE /\ Respond(r, 200)
            /\ UNCHANGED submitted
  /\ UNCHANGED <<pingVars, idVars, rlVars, wsVars, timeVars, lockVars, qin, qmod, chatDocs, msgDocs, durable>>

\* CreateChat: chatsColl.FindOne for a chat of exactly these participants.
CcFind(r, dbok) ==
  /\ ~crashed
  /\ qpc[r] = "cc_find"
  /\ UNCHANGED checked
  /\ IF ~dbok THEN Respond(r, 500)
     ELSE IF \E d \in chatDocs : d.parts = {qin[r].user, qin[r].part}
       THEN Respond(r, 200)
     ELSE /\ qpc' = [qpc EXCEPT ![r] = "cc_insert"]
          /\ UNCHANGED qresp
  /\ UNCHANGED <<pingVars, idVars, rlVars, wsVars, timeVars, lockVars, qin, qmod, chatDocs, msgDocs, durable, submitted>>

\* CreateChat: chatsColl.InsertOne, then the lookup of the partner, up to the
\* call of BroadcastChatCreated.
CcInsert(r, dbok) ==
  /\ ~crashed
  /\ qpc[r] = "cc_insert"
  /\ UNCHANGED checked
  /\ durable' = [durable EXCEPT ![r] = IF dbok THEN "ok" ELSE "failed"]
  /\ IF dbok
       THEN /\ chatDocs' = chatDocs \cup
                             {[id |-> r, parts |-> {qin[r].user, qin[r].part}]}
            /\ qpc' = [qpc EXCEPT ![r] = "cc_notify"]
            /\ submitted' = submitted \cup {r}
            /\ UNCHANGED qresp
       ELSE /\ Respond(r, 500)
            /\ UNCHANGED <<chatDocs, submitted>>
  /\ UNCHANGED <<pingVars, idVars, rlVars, wsVars, timeVars, lockVars, qin, qmod, msgDocs>>

\* The Broadcast* method each handler calls, and its response afterwards.
KindOfHandler(h) ==
  CASE h = "SendMessage" -> "new_message"
    [] h = "CreateChat" -> "chat_created"
    [] OTHER -> "message_read"

StatusAfterNotify(h) == IF h = "MarkAsRead" THEN 200 ELSE 201

\* case message := <-m.broadcast, the sender being the Broadcast* method a
\* REST handler called; the handler then responds.
HubRecvFromHandler(r) ==
  /\ ~crashed
  /\ qpc[r] \in {"sm_notify", "mr_notify", "cc_notify"}
  /\ HubFanOut(KindOfHandler(qin[r].h))
  /\ Respond(r, StatusAfterNotify(qin[r].h))
  /\ UNCHANGED <<pingVars, idVars, rlVars, timeVars, lockVars, handlerVars, readerVars, writerVars, connVars,
                 callerVars,
                 calls, unregBy, regAt, qin, qmod, chatDocs, msgDocs, durable,
                 submitted, checked>>

\* SendTypingIndicator: binding and id parsing (400 / 401 on failure).
StartTyping(r, q) ==
  /\ ~crashed
  /\ qpc[r] = "idle"
  /\ IF ~q.valid
       THEN /\ Respond(r, 400)
            /\ UNCHANGED qin
       ELSE /\ qin' = [qin EXCEPT ![r] = q]
            /\ qpc' = [qpc EXCEPT ![r] = "ti_member"]
            /\ UNCHANGED qresp
  /\ UNCHANGED <<pingVars, idVars, rlVars, wsVars, timeVars, lockVars, qmod, chatDocs, msgDocs, durable, submitted, checked>>

\* SendTypingIndicator: chatsColl.CountDocuments with the membership filter;
\* an error or a count of 0 is a 403, otherwise the handler goes on to
\* BroadcastTypingStart / BroadcastTypingEnd.
TiMember(r, dbok) ==
  /\ ~crashed
  /\ qpc[r] = "ti_member"
  /\ IF dbok /\ IsParticipant(qin[r].user, qin[r].chat)
       THEN /\ qpc' = [qpc EXCEPT ![r] = "ti_notify"]
            /\ submitted' = submitted \cup {r}
            /\ UNCHANGED qresp
       ELSE /\ Respond(r, 403)
            /\ UNCHANGED submitted
  /\ checked' = [checked EXCEPT ![r] =
                   IF ~dbok THEN "error"
                   ELSE IF IsParticipant(qin[r].user, qin[r].chat)
                     THEN "member" ELSE "denied"]
  /\ UNCHANGED <<pingVars, idVars, rlVars, wsVars, timeVars, lockVars, qin, qmod, chatDocs, msgDocs, durable>>

\* case message := <-m.broadcast, the sender being BroadcastTypingStart or
\* BroadcastTypingEnd called by SendTypingIndicator, which then responds 200.
HubRecvTyping(r) ==
  /\ ~crashed
  /\ qpc[r] = "ti_notify"
  /\ HubFanOut(IF qin[r].typing THEN "typing_start" ELSE "typing_end")
  /\ Respond(r, 200)
  /\ UNCHANGED <<pingVars, idVars, rlVars, timeVars, lockVars, handlerVars, readerVars, writerVars, connVars,
                 callerVars,
                 calls, unregBy, regAt, qin, qmod, chatDocs, msgDocs, durable,
                 submitted, checked>>

\* -------------------------------------------- the pumps in discrete time
\* One connection from the moment its two pumps start, with no outbound
\* application frames: writePump only serves its ticker.  Time is counted in
\* seconds by clocks relative to now.  A goroutine that can run does so
\* before time passes; a write takes any time up to its deadline.

\* Mutant of NextTickIn: the ticker is created with the period of the read
\* deadline on top of its own.
NextTickInSlow(t) == IF t = 1 THEN ReadWait + PingPeriod ELSE t - 1

\* time.NewTicker(30 * time.Second): the time to the next tick, one second on.
NextTickIn(t) == IF t = 1 THEN PingPeriod ELSE t - 1

\* A clock that is only compared with ReadWait stops there.
Later(t) == IF t < ReadWait THEN t + 1 ELSE t

\* One second passes.
TimePasses ==
  /\ tpc # "done" \/ trpc # "done"
  /\ ~(tpc = "select" /\ tick)
  /\ ~(tpc = "ping" /\ wleft = 0)
  /\ ~(trpc = "read" /\ (deadlineIn = 0 \/ tclosed))
  /\ IF tpc # "done"
       THEN /\ tickIn' = NextTickIn(tickIn)
            /\ tick' = (tick \/ tickIn = 1)
            /\ sincePing' = Later(sincePing)
            /\ wleft' = IF tpc = "ping" THEN wleft - 1 ELSE wleft
       ELSE UNCHANGED <<tickIn, tick, sincePing, wleft>>
  /\ IF trpc = "read"
       THEN /\ deadlineIn' = deadlineIn - 1
            /\ sinceFrame' = Later(sinceFrame)
       ELSE UNCHANGED <<deadlineIn, sinceFrame>>
  /\ UNCHANGED <<pingVars, idVars, rlVars, wsVars, webVars, lockVars, tpc, pinged, trpc, pongOwed, gapOk, timedOut,
                 tclosed>>

\* case <-ticker.C: SetWriteDeadline(now + 10s) and the start of
\* WriteMessage(PingMessage).
PingStart ==
  /\ tpc = "select"
  /\ tick
  /\ tick' = FALSE
  /\ tpc' = "ping"
  /\ wleft' = WriteWait
  /\ UNCHANGED <<pingVars, idVars, rlVars, wsVars, webVars, lockVars, tickIn, sincePing, pinged, trpc, deadlineIn,
                 pongOwed, sinceFrame, gapOk, timedOut, tclosed>>

\* WriteMessage(PingMessage) returns: nil before the write deadline on an open
\* transport, otherwise an error, and writePump returns (its deferred
\* function stops the ticker and closes the transport).
PingDone(wok) ==
  /\ tpc = "ping"
  /\ wok => (wleft > 0 /\ ~tclosed)
  /\ IF wok
       THEN /\ tpc' = "select"
            /\ sincePing' = 0
            /\ pinged' = TRUE
            /\ pongOwed' = TRUE
            /\ UNCHANGED <<tick, tclosed>>
       ELSE /\ tpc' = "done"
            /\ tick' = FALSE
            /\ tclosed' = TRUE
            /\ UNCHANGED <<sincePing, pinged, pongOwed>>
  /\ wleft' = 0
  /\ UNCHANGED <<pingVars, idVars, rlVars, wsVars, webVars, lockVars, tickIn, trpc, deadlineIn, sinceFrame, gapOk,
                 timedOut>>

\* The pong handler installed by SetPongHandler: the peer's pong arrives
\* while ReadMessage waits and the read deadline is set to now + 60s.  The
\* peer may answer a ping late or never.
PongReceived ==
  /\ trpc = "read"
  /\ pongOwed
  /\ ~tclosed
  /\ deadlineIn > 0
  /\ deadlineIn' = ReadWait
  /\ pongOwed' = FALSE
  /\ UNCHANGED <<pingVars, idVars, rlVars, wsVars, webVars, lockVars, tick, tickIn, tpc, wleft, sincePing, pinged,
                 trpc, sinceFrame, gapOk, timedOut, tclosed>>

\* The read deadline once ReadMessage has returned a frame: the loop of
\* readPump never calls SetReadDeadline, so it is what it was.
DeadlineAfterFrame(d) == d

\* c.conn.ReadMessage() returns an application frame before the deadline.
FrameReceived ==
  /\ trpc = "read"
  /\ ~tclosed
  /\ deadlineIn > 0
  /\ deadlineIn' = DeadlineAfterFrame(deadlineIn)
  /\ gapOk' = (gapOk /\ sinceFrame < ReadWait)
  /\ sinceFrame' = 0
  /\ UNCHANGED <<pingVars, idVars, rlVars, wsVars, webVars, lockVars, tick, tickIn, tpc, wleft, sincePing, pinged,
                 trpc, pongOwed, timedOut, tclosed>>

\* c.conn.ReadMessage() fails on the read deadline: break, and the deferred
\* function closes the transport.
ReadTimeout ==
  /\ trpc = "read"
  /\ ~tclosed
  /\ deadlineIn = 0
  /\ trpc' = "done"
  /\ timedOut' = TRUE
  /\ tclosed' = TRUE
  /\ UNCHANGED <<pingVars, idVars, rlVars, wsVars, webVars, lockVars, tick, tickIn, tpc, wleft, sincePing, pinged,
                 deadlineIn, pongOwed, sinceFrame, gapOk>>

\* c.conn.ReadMessage() fails because writePump has closed the transport.
ReadClosed ==
  /\ trpc = "read"
  /\ tclosed
  /\ trpc' = "done"
  /\ UNCHANGED <<pingVars, idVars, rlVars, wsVars, webVars, lockVars, tick, tickIn, tpc, wleft, sincePing, pinged,
                 deadlineIn, pongOwed, sinceFrame, gapOk, timedOut, tclosed>>

\* ------------------------------------------- the userId of the envelopes
\* An inbound frame as its handler sees it: its type, whether the fields the
\* handler type-asserts are present, the chatId (or channel) it names, and
\* the userId its sender wrote into it ("" when it wrote none).
IdFrames == [type : FrameTypes, fields : BOOLEAN, chatId : IdChats,
             userId : Tokens]
NoFrame == [type |-> "other", fields |-> FALSE, chatId |-> "", userId |-> ""]

\* Mutant of EnvelopeUserId: a userId found in the frame is passed on.
EnvelopeUserIdFromFrame(userID, f) ==
  IF f.userId # "" THEN f.userId ELSE userID

\* "userId": c.userID in every handler of readPump, "userId": userID in the
\* welcome message of WebSocketHandler.
EnvelopeUserId(userID, f) == userID

\* The map each handler marshals: type, and in the payload the userId and the
\* chatId or channel copied from the frame (sendPong and the welcome message
\* copy nothing, sendPong has no userId).
Envelope(kind, userID, f) ==
  [type |-> kind,
   userId |-> IF kind = "pong" THEN "" ELSE EnvelopeUserId(userID, f),
   chatId |-> IF kind \in {"pong", "connected"} THEN "" ELSE f.chatId]

\* WebSocketHandler: an empty token is answered 401; any other token becomes
\* the userID of the new Client, and the welcome message is built.
IdHandshake(c, token) ==
  /\ boundId[c] = ""
  /\ IF token = ""
       THEN UNCHANGED idVars
       ELSE /\ Len(outA) < MaxEnvs
            /\ boundId' = [boundId EXCEPT ![c] = token]
            /\ outA' = Append(outA, [conn |-> c, to |-> "reply",
                                     env |-> Envelope("connected", token, NoFrame)])
            /\ outB' = Append(outB, [conn |-> c, to |-> "reply",
                                     env |-> Envelope("connected", token, NoFrame)])
            /\ UNCHANGED forged
  /\ UNCHANGED <<wsVars, webVars, timeVars, lockVars, pingVars, rlVars>>

\* readPump decodes a frame and its handler builds the envelope.  The second
\* run receives the same frame with u in its userId field.
IdFrame(c, f, u) ==
  /\ boundId[c] # ""
  /\ Len(outA) < MaxEnvs
  /\ LET d == Dispatch(f)
         g == [f EXCEPT !.userId = u]
     IN IF d.act = "none"
          THEN UNCHANGED idVars
          ELSE /\ outA' = Append(outA, [conn |-> c, to |-> d.act,
                                        env |-> Envelope(d.kind, boundId[c], f)])
               /\ outB' = Append(outB, [conn |-> c, to |-> d.act,
                                        env |-> Envelope(d.kind, boundId[c], g)])
               /\ forged' = (forged \/ (d.kind # "pong" /\ u # f.userId
                                          /\ u \notin {"", boundId[c]}))
               /\ UNCHANGED boundId
  /\ UNCHANGED <<wsVars, webVars, timeVars, lockVars, pingVars, rlVars>>

\* ------------------------------------------------ middleware/ratelimit.go
\* The index the cleaning loop stops at: the first request After(cutoff), or
\* one past the end.
FirstAfter(requests, cutoff) ==
  IF \E j \in DOMAIN requests : requests[j] > cutoff
    THEN CHOOSE j \in DOMAIN requests :
           /\ requests[j] > cutoff
           /\ \A k \in 1..(j - 1) : ~(requests[k] > cutoff)
    ELSE Len(requests) + 1

\* Mutant of Prune: requests one tick younger than the cutoff are dropped too.
PruneEager(requests, cutoff) ==
  SubSeq(requests, FirstAfter(requests, cutoff + 1), Len(requests))

\* requests = requests[i:]
Prune(requests, cutoff) ==
  SubSeq(requests, FirstAfter(requests, cutoff), Len(requests))

\* IPRateLimiter.Allow(ip), called by RateLimitMiddleware under rl.mu: false
\* (answered 429) leaves the map as it is, true stores the cleaned list with
\* now appended.
Allow(ip) ==
  LET requests == Prune(rlReqs[ip], rlNow - RlWindow)
      ok == ~(Len(requests) >= RlLimit)
  IN /\ rlReqs' = IF ok THEN [rlReqs EXCEPT ![ip] = Append(requests, rlNow)]
                        ELSE rlReqs
     /\ rlAcc' = IF ok THEN [rlAcc EXCEPT ![ip] = Append(@, rlNow)] ELSE rlAcc
     /\ rlLast' = [ip |-> ip, ok |-> ok, at |-> rlNow, before |-> rlReqs]
     /\ UNCHANGED <<wsVars, webVars, timeVars, lockVars, pingVars, idVars, rlNow>>

\* time.Now() advances between two calls.
RlTick ==
  /\ rlNow < MaxTime
  /\ rlNow' = rlNow + 1
  /\ UNCHANGED <<wsVars, webVars, timeVars, lockVars, pingVars, idVars, rlReqs,
                 rlAcc, rlLast>>

\* --------------------------------- Manager.Start statement by statement
\* The control loop with its lock operations and the statements of the
\* range loop as separate steps, next to a caller of GetConnectedUsers.
\* m.mu.Lock() waits for a reader to release; m.mu.RLock() is shared.

\* case client := <-m.register, with m.mu.Lock() ... m.mu.Unlock().
LockedRegister(c) ==
  /\ hubpc = "select"
  /\ ~qheld
  /\ HubRegister(c)

\* case client := <-m.unregister, with m.mu.Lock() ... m.mu.Unlock().
LockedUnregister(c) ==
  /\ hubpc = "select"
  /\ ~qheld
  /\ HubUnregister(c)

\* case message := <-m.broadcast and m.mu.RLock(): the range loop starts.
RangeBegin(k) ==
  /\ ~crashed
  /\ hubpc = "select"
  /\ pending[k] > 0
  /\ pending' = [pending EXCEPT ![k] = @ - 1]
  /\ hubpc' = "range"
  /\ todo' = clients
  /\ hmsg' = Msg(k, Len(hubLog) + 1)
  /\ hubLog' = Append(hubLog, [msg |-> Msg(k, Len(hubLog) + 1),
                               present |-> clients, full |-> {}])
  /\ UNCHANGED <<pingVars, idVars, rlVars, webVars, timeVars, hubVars, boxVars, handlerVars, readerVars,
                 writerVars, connVars, crashed, calls, unregBy, regAt, victim,
                 qheld, qret>>

\* One iteration of the range loop (Go visits the map in any order): the
\* select with `case client.send <- message` and, when the mailbox is full,
\* `default: close(client.send)`.
RangeOffer(c) ==
  /\ ~crashed
  /\ hubpc = "range"
  /\ c \in todo
  /\ todo' = todo \ {c}
  /\ IF closed[c]
       THEN /\ crashed' = TRUE
            /\ UNCHANGED <<boxVars, hubLog, hubpc, victim>>
       ELSE IF HasRoom(send[c])
         THEN /\ send' = [send EXCEPT ![c] = Append(@, hmsg)]
              /\ enq' = [enq EXCEPT ![c] = Append(@, hmsg)]
              /\ UNCHANGED <<closed, sendCloses, hubLog, hubpc, victim, crashed>>
         ELSE /\ closed' = [closed EXCEPT ![c] = TRUE]
              /\ sendCloses' = [sendCloses EXCEPT ![c] = @ + 1]
              /\ hubLog' = [hubLog EXCEPT ![Len(hubLog)].full = @ \cup {c}]
              /\ hubpc' = "delete"
              /\ victim' = c
              /\ UNCHANGED <<send, enq, crashed>>
  /\ UNCHANGED <<pingVars, idVars, rlVars, webVars, timeVars, hubVars, handlerVars, readerVars,
                 writerVars, connVars, callerVars, calls, unregBy, regAt, hmsg,
                 qheld, qret>>

\* delete(m.clients, client) in the default branch; m.mu is read-locked.
RangeDelete ==
  /\ ~crashed
  /\ hubpc = "delete"
  /\ clients' = clients \ {victim}
  /\ victim' = 0
  /\ hubpc' = "range"
  /\ UNCHANGED <<pingVars, idVars, rlVars, webVars, timeVars, boxVars, handlerVars, readerVars,
                 writerVars, connVars, callerVars, crashed, calls, hubLog,
                 unregBy, regAt, todo, hmsg, qheld, qret>>

\* The range loop is over: m.mu.RUnlock() and back to the select.
RangeEnd ==
  /\ ~crashed
  /\ hubpc = "range"
  /\ todo = {}
  /\ hubpc' = "select"
  /\ hmsg' = NoMsg
  /\ UNCHANGED <<pingVars, idVars, rlVars, wsVars, webVars, timeVars, todo, victim, qheld, qret>>

\* GetConnectedUsers: m.mu.RLock(); it is granted whenever no writer holds
\* the lock, also while the range loop holds its read lock.
QueryLock ==
  /\ ~crashed
  /\ ~qheld
  /\ qheld' = TRUE
  /\ UNCHANGED <<pingVars, idVars, rlVars, wsVars, webVars, timeVars, hubpc, todo, hmsg, victim, qret>>

\* GetConnectedUsers: return len(m.clients), and the deferred m.mu.RUnlock().
QueryReturn ==
  /\ ~crashed
  /\ qheld
  /\ qret' = Cardinality(clients)
  /\ qheld' = FALSE
  /\ UNCHANGED <<pingVars, idVars, rlVars, wsVars, webVars, timeVars, hubpc, todo, hmsg, victim>>

\* A step of the control loop Manager.Start: one of the cases of its select.
HubStep ==
  \/ \E c \in Conns : HubRegister(c)
  \/ \E c \in Conns : HubUnregister(c)
  \/ \E k \in BroadcastKinds : HubRecvBroadcast(k)
  \/ \E c \in Conns : HubRecvRebroadcast(c)
  \/ \E r \in Reqs : HubRecvFromHandler(r)
  \/ \E r \in Reqs : HubRecvTyping(r)

\* ----------------------------------------------------------- specifications
\* The hub never reads the bytes it copies, so in the specifications of its
\* mechanics the callers use one of the five methods, BroadcastNewMessage.
HubKinds == {"new_message"}

\* The hub and the life cycle of the connections under concurrent connects,
\* disconnects, transport faults, heartbeats and broadcasts; the clients send
\* no application frames.
Next ==
  \/ \E c \in Conns, ok \in BOOLEAN : Handshake(c, ok)
  \/ \E c \in Conns : HubRegister(c)
  \/ \E c \in Conns : HandlerWelcome(c)
  \/ \E c \in Conns : HubUnregister(c)
  \/ \E k \in HubKinds : CallBroadcast(k)
  \/ \E k \in HubKinds : HubRecvBroadcast(k)
  \/ \E c \in Conns : ReaderError(c)
  \/ \E c \in Conns : ReaderClose(c)
  \/ \E c \in Conns, wok \in BOOLEAN : WriterSend(c, wok)
  \/ \E c \in Conns : WriterClosed(c)
  \/ \E c \in Conns, wok \in BOOLEAN : WriterPing(c, wok)

Spec == Init /\ [][Next]_vars

\* One connection with the whole inbound protocol: every frame type, the
\* replies of the reader pump and its rebroadcasts.
FrameConns == {1}

FrameNext ==
  \/ \E c \in FrameConns, ok \in BOOLEAN : Handshake(c, ok)
  \/ \E c \in FrameConns : HubRegister(c)
  \/ \E c \in FrameConns : HandlerWelcome(c)
  \/ \E c \in FrameConns : HubUnregister(c)
  \/ \E k \in HubKinds : CallBroadcast(k)
  \/ \E k \in HubKinds : HubRecvBroadcast(k)
  \/ \E c \in FrameConns : HubRecvRebroadcast(c)
  \/ \E c \in FrameConns, f \in Frames : ReaderFrame(c, f)
  \/ \E c \in FrameConns : ReaderReply(c)
  \/ \E c \in FrameConns : ReaderError(c)
  \/ \E c \in FrameConns : ReaderClose(c)
  \/ \E c \in FrameConns, wok \in BOOLEAN : WriterSend(c, wok)
  \/ \E c \in FrameConns : WriterClosed(c)
  \/ \E c \in FrameConns, wok \in BOOLEAN : WriterPing(c, wok)

FrameSpec == Init /\ [][FrameNext]_vars

\* The REST handlers of the Delivery Gateway against the document store and
\* the hub.
WebNext ==
  \/ \E r \in Reqs, q \in Requests : StartRequest(r, q)
  \/ \E r \in Reqs, dbok \in BOOLEAN : SmMember(r, dbok)
  \/ \E r \in Reqs, dbok \in BOOLEAN : SmInsert(r, dbok)
  \/ \E r \in Reqs, dbok \in BOOLEAN : MrFind(r, dbok)
  \/ \E r \in Reqs, dbok \in BOOLEAN : MrMember(r, dbok)
  \/ \E r \in Reqs, dbok \in BOOLEAN : MrUpdate(r, dbok)
  \/ \E r \in Reqs, dbok \in BOOLEAN : MrCollect(r, dbok)
  \/ \E r \in Reqs, dbok \in BOOLEAN : CcFind(r, dbok)
  \/ \E r \in Reqs, dbok \in BOOLEAN : CcInsert(r, dbok)
  \/ \E r \in Reqs : HubRecvFromHandler(r)

WebSpec == Init /\ [][WebNext]_vars

\* The REST handlers together with SendTypingIndicator.
AuthNext ==
  \/ WebNext
  \/ \E r \in Reqs, q \in TypingRequests : StartTyping(r, q)
  \/ \E r \in Reqs, dbok \in BOOLEAN : TiMember(r, dbok)
  \/ \E r \in Reqs : HubRecvTyping(r)

AuthSpec == Init /\ [][AuthNext]_vars

\* Two connections whose clients send application frames: the replies and
\* the rebroadcasts of the reader pumps, the writer pumps draining, and the
\* teardown after a read error.
EchoFrames == [type : {"subscribe_chat", "typing_start", "message_read"},
               fields : {TRUE}]

EchoNext ==
  \/ \E c \in Conns : Handshake(c, TRUE)
  \/ \E c \in Conns : HubRegister(c)
  \/ \E c \in Conns : HandlerWelcome(c)
  \/ \E c \in Conns : HubUnregister(c)
  \/ \E c \in Conns : HubRecvRebroadcast(c)
  \/ \E c \in Conns, f \in EchoFrames : ReaderFrame(c, f)
  \/ \E c \in Conns : ReaderReply(c)
  \/ \E c \in Conns : ReaderError(c)
  \/ \E c \in Conns : ReaderClose(c)
  \/ \E c \in Conns : WriterSend(c, TRUE)
  \/ \E c \in Conns : WriterClosed(c)

EchoSpec == Init /\ [][EchoNext]_vars

\* Two connections under concurrent Broadcast* callers and reader-pump
\* rebroadcasts (typing_start frames), with the writer pumps draining.
OrderFrames == [type : {"typing_start"}, fields : {TRUE}]

OrderNext ==
  \/ \E c \in Conns : Handshake(c, TRUE)
  \/ \E c \in Conns : HubRegister(c)
  \/ \E c \in Conns : HandlerWelcome(c)
  \/ \E c \in Conns : HubUnregister(c)
  \/ \E k \in HubKinds : CallBroadcast(k)
  \/ \E k \in HubKinds : HubRecvBroadcast(k)
  \/ \E c \in Conns : HubRecvRebroadcast(c)
  \/ \E c \in Conns, f \in OrderFrames : ReaderFrame(c, f)
  \/ \E c \in Conns : ReaderError(c)
  \/ \E c \in Conns : ReaderClose(c)
  \/ \E c \in Conns : WriterSend(c, TRUE)
  \/ \E c \in Conns : WriterClosed(c)

OrderSpec == Init /\ [][OrderNext]_vars

\* The control loop statement by statement with a caller of
\* GetConnectedUsers, two connections and the Broadcast* callers.
LockNext ==
  \/ \E c \in Conns : Handshake(c, TRUE)
  \/ \E c \in Conns : LockedRegister(c)
  \/ \E c \in Conns : HandlerWelcome(c)
  \/ \E c \in Conns : LockedUnregister(c)
  \/ \E k \in HubKinds : CallBroadcast(k)
  \/ \E k \in HubKinds : RangeBegin(k)
  \/ \E c \in Conns : RangeOffer(c)
  \/ RangeDelete
  \/ RangeEnd
  \/ QueryLock
  \/ QueryReturn
  \/ \E c \in Conns : ReaderError(c)
  \/ \E c \in Conns : ReaderClose(c)
  \/ \E c \in Conns : WriterSend(c, TRUE)
  \/ \E c \in Conns : WriterClosed(c)

LockSpec == Init /\ [][LockNext]_vars

\* The envelopes built for two connections, each run twice: with the frames
\* as sent and with other userIds written into them.
IdNext ==
  \/ \E c \in Conns, token \in Tokens : IdHandshake(c, token)
  \/ \E c \in Conns, f \in IdFrames, u \in Tokens : IdFrame(c, f, u)

IdSpec == Init /\ [][IdNext]_vars

\* Calls of the rate limiter for two addresses as time passes.
RlNext ==
  \/ \E ip \in IPs : Allow(ip)
  \/ RlTick

RlSpec == Init /\ [][RlNext]_vars

\* The heartbeat and the read deadline of one connection in discrete time.
TimeNext ==
  \/ TimePasses
  \/ PingStart
  \/ \E wok \in BOOLEAN : PingDone(wok)
  \/ PongReceived
  \/ FrameReceived
  \/ ReadTimeout
  \/ ReadClosed

TimeSpec == Init /\ [][TimeNext]_vars

\* The scheduling the Go runtime gives the goroutines of FrameSpec: a
\* goroutine that can run does run.  The hub receives from a waiting sender,
\* a send or receive on the mailbox that can proceed does, a deferred Close
\* runs, and I/O on a transport that a pump has closed fails.  Nothing
\* obliges the environment to call Broadcast*, to send frames or to fail.
FrameFairness ==
  \A c \in FrameConns :
    /\ WF_vars(HubRegister(c))
    /\ WF_vars(HubUnregister(c))
    /\ WF_vars(HubRecvRebroadcast(c))
    /\ WF_vars(HandlerWelcome(c))
    /\ WF_vars(ReaderReply(c))
    /\ WF_vars(ReaderClose(c))
    /\ WF_vars(ConnClosed(c) /\ ReaderError(c))
    /\ WF_vars(\E wok \in BOOLEAN : WriterSend(c, wok))
    /\ WF_vars(WriterClosed(c))
    /\ WF_vars(ConnClosed(c) /\ WriterPing(c, FALSE))

FairSpec ==
  /\ Init
  /\ [][FrameNext]_vars
  /\ FrameFairness
  /\ \A k \in HubKinds : WF_vars(HubRecvBroadcast(k))

\* ------------------------------------------------------------------ helpers
\* How often broadcast number n has been placed in the sequence q.
Occ(q, n) == Cardinality({i \in DOMAIN q : q[i].id = n})

IsPrefix(a, b) == Len(a) <= Len(b) /\ SubSeq(b, 1, Len(a)) = a

\* The frames of c's mailbox that reached the transport.
WireData(c) == SelectSeq(wire[c], LAMBDA m : m # CloseFrame)

\* The broadcast numbers in q, in the order they occur.
BcastIds(q) ==
  LET b == SelectSeq(q, LAMBDA m : m.id > 0)
  IN [i \in DOMAIN b |-> b[i].id]

Increasing(ns) == \A i, j \in DOMAIN ns : i < j => ns[i] < ns[j]

\* ----------------------------------------------------------------- claims
\* C1 (backpressure isolation): for every broadcast the hub has processed,
\* each connection whose mailbox was full at that moment is out of the
\* registry with its mailbox closed, and each other connection registered
\* at that moment has that broadcast in its mailbox history exactly once.
C1_BackpressureIsolation ==
  \A i \in DOMAIN hubLog :
    /\ \A a \in hubLog[i].full : a \notin clients /\ closed[a]
    /\ \A b \in hubLog[i].present \ hubLog[i].full : Occ(enq[b], i) = 1

\* A broadcast found a connection full while another one had room, and both
\* that broadcast and a later one were delivered to the other one.
C1_Witness ==
  \E i, j \in DOMAIN hubLog :
    /\ i < j
    /\ hubLog[i].full # {}
    /\ \E b \in hubLog[i].present \ hubLog[i].full :
         /\ b \in hubLog[j].present
         /\ Occ(enq[b], i) = 1
         /\ Occ(enq[b], j) = 1

\* C2 (unregister is idempotent): an Unregister request processed for a
\* connection that is not in the registry changes neither the registry nor
\* any mailbox, and no mailbox is ever closed more than once.
C2_UnregisterIdempotent ==
  [][/\ \A c \in Conns :
          (rpc[c] = "unregister" /\ rpc'[c] = "close" /\ c \notin clients)
            => /\ clients' = clients
               /\ send' = send
               /\ closed' = closed
               /\ sendCloses' = sendCloses
     /\ \A c \in Conns : sendCloses'[c] <= 1]_vars

\* An Unregister request has been processed for a connection the hub had
\* already dropped for overflow.
C2_Witness ==
  \E c \in Conns :
    /\ rpc[c] \in {"close", "done"}
    /\ \E i \in DOMAIN hubLog : c \in hubLog[i].full
    /\ sendCloses[c] = 1

\* C3 (registration visibility): a broadcast the hub processed before it
\* registered c is never in c's mailbox history; one it processed after,
\* with c still registered and its mailbox not full, is there exactly once.
C3_RegistrationVisibility ==
  \A c \in Conns : \A i \in DOMAIN hubLog :
    /\ (regAt[c] = -1 \/ i <= regAt[c]) => Occ(enq[c], i) = 0
    /\ (regAt[c] # -1 /\ i > regAt[c] /\ c \in hubLog[i].present
          /\ c \notin hubLog[i].full) => Occ(enq[c], i) = 1
    /\ Occ(enq[c], i) <= 1

\* A connection was registered between two broadcasts and holds the later one.
C3_Witness ==
  \E c \in Conns :
    /\ regAt[c] >= 1
    /\ Len(hubLog) > regAt[c]
    /\ Occ(enq[c], regAt[c] + 1) = 1

\* C4 (FIFO delivery): what a writer pump has written is a prefix of what was
\* placed in its mailbox, the broadcasts in a mailbox are in the order in
\* which the hub processed them, and while the pump runs every frame taken
\* from the mailbox has been written (none skipped, none duplicated).
C4_FifoDelivery ==
  \A c \in Conns :
    /\ IsPrefix(WireData(c), enq[c])
    /\ Increasing(BcastIds(enq[c]))
    /\ wpc[c] = "select" => WireData(c) \o send[c] = enq[c]

\* A writer pump has written two broadcasts.
C4_Witness ==
  \E c \in Conns : Len(BcastIds(WireData(c))) >= 2

\* C7 (unregister before close): every pump that has closed the transport
\* had submitted an Unregister request before.
C7_UnregisterBeforeClose ==
  \A c \in Conns : closedBy[c] \subseteq unregBy[c]

\* C5 (the broadcaster is never blocked): every Broadcast* call that waits
\* at the hub's channel eventually returns.
C5_BroadcastReturns ==
  \A k \in BroadcastKinds : (pending[k] > 0) ~> (pending[k] = 0)

\* C6 (enqueue on a full mailbox): a reader pump that is at its send
\* statement with its mailbox full is not left waiting there with the
\* connection still registered.
C6_EnqueueNeverBlocks ==
  \A c \in Conns :
    (rpc[c] = "reply" /\ Len(send[c]) >= SendCap) => c \notin clients

\* C8 (no connection outlives its pumps): once a pump of a registered
\* connection has exited, the connection eventually is out of the registry
\* with its mailbox closed exactly once.
C8_TeardownCompletes ==
  \A c \in Conns :
    (c \in clients /\ (wpc[c] = "done" \/ rpc[c] \in {"unregister", "close", "done"}))
      ~> (c \notin clients /\ sendCloses[c] = 1)

\* C9 (transport fault isolation): a step that tears down connection a (its
\* read error, the exit of its writer pump, its removal for overflow) leaves
\* the registry membership of every other connection as it was and at most
\* appends the broadcast being delivered to its mailbox, and no teardown
\* ends the process.
C9_FaultIsolation ==
  [][/\ \A a \in Conns :
          (\/ rpc[a] = "read" /\ rpc'[a] = "unregister"
           \/ wpc[a] = "select" /\ wpc'[a] = "done"
           \/ a \in clients /\ a \notin clients')
            => \A b \in Conns \ {a} :
                 /\ (b \in clients /\ HasRoom(send[b])) => b \in clients'
                 /\ b \notin clients => b \notin clients'
                 /\ IsPrefix(send[b], send'[b])
     /\ ~crashed']_vars

\* C10 (persist then notify): every notification the hub received came from
\* a handler whose durable write succeeded; a handler that has reached its
\* Broadcast* call has had its durable write succeed, and a handler whose
\* durable write failed has responded 500 and never reached a Broadcast* call.
C10_PersistThenNotify ==
  /\ \A i \in DOMAIN hubLog :
       \E q \in Reqs : /\ qin[q].h \in Handlers
                       /\ KindOfHandler(qin[q].h) = hubLog[i].msg.type
                       /\ durable[q] = "ok"
  /\ \A r \in Reqs :
       /\ r \in submitted => durable[r] = "ok"
       /\ durable[r] = "failed" =>
            qpc[r] = "done" /\ qresp[r] = 500 /\ r \notin submitted

\* The hub has received the broadcast of a SendMessage whose insert
\* succeeded, while another request's durable write failed.
C10_Witness ==
  \E r, q \in Reqs :
    /\ qin[r].h = "SendMessage" /\ durable[r] = "ok" /\ qresp[r] = 201
    /\ \E i \in DOMAIN hubLog : hubLog[i].msg.type = "new_message"
    /\ durable[q] = "failed"

\* C11 (no fabricated read receipt): every message_read envelope placed in
\* a mailbox was preceded by a MarkAsRead whose UpdateMany succeeded.
C11_ReadReceiptsAreDurable ==
  \A c \in Conns : \A i \in DOMAIN enq[c] :
    enq[c][i].type = "message_read"
      => \E r \in Reqs : qin[r].h = "MarkAsRead" /\ durable[r] = "ok"

\* The chat a request of SendMessage, SendTypingIndicator (its chatId) or
\* MarkAsRead (the chat of its message) is about.
ChatOfRequest(q) == IF q.h = "MarkAsRead" THEN ChatOfMsg(q.msg) ELSE q.chat

\* The requesting user is among the participants of that chat.
TrulyMember(q) ==
  \E d \in chatDocs : d.id = ChatOfRequest(q) /\ q.user \in d.parts

C13_SingleWriterRegistry == [][clients' # clients => HubStep]_vars

\* Both connections have been inserted into the registry and removed from
\* it, one by an Unregister request and one by an overflow disconnect, and
\* their pumps have exited.
C13_Witness ==
  \E c, d \in Conns :
    /\ c # d
    /\ regAt[c] # -1 /\ c \notin clients /\ rpc[c] = "done" /\ wpc[c] = "done"
    /\ \A i \in DOMAIN hubLog : c \notin hubLog[i].full
    /\ regAt[d] # -1 /\ d \notin clients
    /\ \E i \in DOMAIN hubLog : d \in hubLog[i].full

\* The status of a connection as the hub sees it: 0 Handshaking (never
\* registered), 1 Registered, 2 Closed (removed from the registry).
HubStatus(cl, ra, c) == IF c \in cl THEN 1 ELSE IF ra[c] = -1 THEN 0 ELSE 2

\* C14 (irreversible lifecycle): no step moves the hub-observed status of a
\* connection backwards, a connection removed from the registry is never
\* inserted again, a closed mailbox stays closed, and a removed connection's
\* mailbox is closed.
C14_LifecycleIrreversible ==
  [][\A c \in Conns :
       /\ HubStatus(clients', regAt', c) >= HubStatus(clients, regAt, c)
       /\ (regAt[c] # -1 /\ c \notin clients) => c \notin clients'
       /\ closed[c] => closed'[c]
       /\ (regAt'[c] # -1 /\ c \notin clients') => closed'[c]]_vars

\* A connection was removed from the registry, its pumps and its handler
\* have finished, and the hub has processed a broadcast since without it.
C14_Witness ==
  \E c \in Conns :
    /\ regAt[c] # -1 /\ c \notin clients /\ closed[c]
    /\ hpc[c] = "started" /\ rpc[c] = "done" /\ wpc[c] = "done"
    /\ \E i \in DOMAIN hubLog : i > regAt[c] /\ c \notin hubLog[i].present

C16_ConnectedFirst ==
  \A c \in Conns :
    /\ enq[c] # <<>> => enq[c][1].type = "connected"
    /\ Cardinality({i \in DOMAIN enq[c] : enq[c][i].type = "connected"}) <= 1

\* C17 (bad frames are dropped): a step in which a reader pump receives a
\* frame that does not decode, has a type the switch does not name, or lacks
\* the payload its handler needs, changes neither the registry nor any
\* mailbox, submits no broadcast, and leaves the pump at its next read.
C17_BadFrameNonFatal ==
  [][\A c \in Conns :
       (rlast'[c] # rlast[c] /\ rlast'[c] # "none") =>
         /\ clients' = clients
         /\ send' = send /\ enq' = enq /\ closed' = closed
         /\ pending' = pending /\ calls' = calls /\ hubLog' = hubLog
         /\ rpc[c] = "read" /\ rpc'[c] = "read" /\ rout'[c] = NoMsg
         /\ closedBy' = closedBy /\ ~crashed']_vars

\* A registered connection's reader pump has dropped a frame of an unknown
\* type after it had answered an earlier frame, and is reading again.
C17_Witness ==
  \E c \in Conns :
    /\ rlast[c] \in {"malformed", "unknown"}
    /\ c \in clients /\ rpc[c] = "read" /\ ~ConnClosed(c)
    /\ Replies(c) > 0

\* Where broadcast number n stands in the sequence q (n occurs in q).
PosOf(q, n) == CHOOSE i \in DOMAIN q : q[i].id = n

\* C18 (cross-connection order agreement): two broadcasts that were both
\* placed in the mailboxes of two connections stand in the same order in
\* both.
C18_OrderAgreement ==
  \A c1, c2 \in Conns : \A m1, m2 \in DOMAIN hubLog :
    (/\ Occ(enq[c1], m1) > 0 /\ Occ(enq[c1], m2) > 0
     /\ Occ(enq[c2], m1) > 0 /\ Occ(enq[c2], m2) > 0)
      => (PosOf(enq[c1], m1) < PosOf(enq[c1], m2)
            <=> PosOf(enq[c2], m1) < PosOf(enq[c2], m2))

\* Both mailboxes have received the same two broadcasts, one from a
\* Broadcast* caller and one from a reader pump.
C18_Witness ==
  \E c1, c2 \in Conns : \E m1, m2 \in DOMAIN hubLog :
    /\ c1 # c2 /\ m1 # m2
    /\ hubLog[m1].msg.type = "new_message"
    /\ hubLog[m2].msg.type = "typing_start"
    /\ Occ(enq[c1], m1) = 1 /\ Occ(enq[c1], m2) = 1
    /\ Occ(enq[c2], m1) = 1 /\ Occ(enq[c2], m2) = 1

\* C19 (heartbeat liveness): while writePump lives, never more than the
\* ticker period plus one write deadline has passed since it last wrote a
\* ping (or started), which is less than the read deadline; and when the
\* read deadline of readPump runs out with writePump alive, a ping has been
\* written since that deadline was armed.
C19_HeartbeatLiveness ==
  /\ tpc # "done" => sincePing <= PingPeriod + WriteWait
  /\ PingPeriod + WriteWait < ReadWait
  /\ (tpc # "done" /\ trpc = "read" /\ deadlineIn = 0)
       => pinged /\ sincePing + deadlineIn < ReadWait

\* A connection that has received no application frame for a full read
\* deadline is still open, kept alive by answered pings, and its next ping
\* is due one ticker period after the last.
C19_Witness ==
  /\ sinceFrame = ReadWait /\ gapOk
  /\ trpc = "read" /\ ~tclosed /\ deadlineIn > 0
  /\ pinged /\ tpc = "select" /\ tick /\ sincePing = PingPeriod

\* C20 (frames re-arm the read deadline): when readPump ends on its read
\* deadline although the peer's frames were all less than ReadWait apart,
\* the last frame is at least ReadWait old.
C20_FramesKeepAlive ==
  (timedOut /\ gapOk) => sinceFrame >= ReadWait

\* C21 (the size query is protected): no step changes the registry while a
\* GetConnectedUsers call holds its read lock.
C21_QueryExcludesMutation == [][clients' # clients => ~qheld]_vars

\* C22 (the transport is closed exactly once): over the lifetime of a
\* connection at most one of its pumps calls c.conn.Close(), and once both
\* pumps are done exactly one of them has.
C22_TransportClosedOnce ==
  \A c \in Conns :
    /\ Cardinality(closedBy[c]) <= 1
    /\ (rpc[c] = "done" /\ wpc[c] = "done") => Cardinality(closedBy[c]) = 1

\* C23 (closing the mailbox makes the writer pump exit): what the writer
\* pump writes is a prefix, in order, of what was queued, a close frame is
\* written at most once and nothing after it, and once the mailbox of a
\* connection is closed its writer pump eventually has exited and closed the
\* transport.
C23_MailboxCloseStopsWriter ==
  /\ [](\A c \in FrameConns :
          /\ IsPrefix(WireData(c), enq[c])
          /\ \A i \in DOMAIN wire[c] : wire[c][i] = CloseFrame => i = Len(wire[c]))
  /\ \A c \in FrameConns :
       closed[c] ~> (wpc[c] = "done" /\ "writer" \in closedBy[c])

\* C24 (a ping is written only when no data is pending): no writer pump has
\* written a transport-level ping while its mailbox held a queued frame.
C24_PingOnlyWhenIdle == \A c \in Conns : ~pingBusy[c]

\* C25 (no send on a closed mailbox): neither the welcome send of the
\* handshake handler nor a reply of the reader pump is ever attempted on a
\* mailbox the hub has closed (such a send panics).
C25_NoSendOnClosedMailbox ==
  \A c \in Conns : ~panicking[c] /\ hpc[c] # "panicked"

\* C26 (registry and mailboxes agree): every connection in the registry has
\* an open mailbox, so that a connection whose mailbox is closed is out of the
\* registry and is not counted by GetConnectedUsers.  Stated for the states
\* another task can tell apart: the control loop is between two requests, or
\* a GetConnectedUsers call holds its read lock on the registry.
C26_RegistryMailboxConsistency ==
  (hubpc = "select" \/ qheld) => \A c \in Conns : c \in clients => ~closed[c]

\* C27 (the userId of an envelope is the identity bound at handshake):
\* every connected, subscribed, chat_subscribed, typing_start, typing_end
\* and message_read envelope carries the userID of the connection it was
\* built for, and a run whose frames carry other userIds builds the same
\* envelopes.
C27_UserIdBoundAtHandshake ==
  /\ outA = outB
  /\ \A i \in DOMAIN outB :
       outB[i].env.type # "pong" =>
         outB[i].env.userId = boundId[outB[i].conn]

\* A frame that claims the userId of somebody else has been rebroadcast.
C27_Witness ==
  /\ forged
  /\ \E i \in DOMAIN outB :
       outB[i].to = "bcast" /\ outB[i].env.userId = boundId[outB[i].conn]

\* The calls for ip that returned true at a time in the set T.
AcceptedAt(ip, T) == Cardinality({i \in DOMAIN rlAcc[ip] : rlAcc[ip][i] \in T})

\* A rejected call has left the map as it was, a call has left the lists of
\* the other addresses as they were, and a call is rejected only when RlLimit
\* accepted calls of its own address lie less than RlWindow before it.
RlCallsAreLocal ==
  rlLast.ip # "" =>
    /\ ~rlLast.ok => rlReqs = rlLast.before
    /\ \A other \in IPs \ {rlLast.ip} : rlReqs[other] = rlLast.before[other]
    /\ ~rlLast.ok =>
         AcceptedAt(rlLast.ip, (rlLast.at - RlWindow + 1)..rlLast.at) >= RlLimit

\* C30 (sliding window per IP), as stated: in any interval of length
\* RlWindow, both ends included, at most RlLimit calls of one IP return true;
\* a rejected call records nothing and calls of one IP do not change the
\* outcome for another.
C30_SlidingWindowClosed ==
  /\ \A ip \in IPs, t \in 0..MaxTime : AcceptedAt(ip, t..(t + RlWindow)) <= RlLimit
  /\ RlCallsAreLocal

\* C30 (sliding window per IP), amended: in any interval of length RlWindow
\* that is open at its start, (t - RlWindow, t], at most RlLimit calls of one
\* IP return true; a rejected call records nothing and calls of one IP do not
\* change the outcome for another.
C30_SlidingWindow ==
  /\ \A ip \in IPs, t \in 0..MaxTime :
       AcceptedAt(ip, (t - RlWindow + 1)..t) <= RlLimit
  /\ RlCallsAreLocal

\* An address was rejected at its limit while the other one was let through,
\* and was let through again once its window had moved on.
C30_Witness ==
  \E ip \in IPs :
    /\ Len(rlAcc[ip]) > RlLimit
    /\ ~rlLast.ok
    /\ \E other \in IPs \ {ip} : rlAcc[other] # <<>>

C29_NotifyOnlyOnChange ==
  /\ \A r \in Reqs :
       (qin[r].h = "MarkAsRead" /\ r \in submitted) => qmod[r] > 0
  /\ \A q, r \in Reqs :
       (/\ q # r
        /\ qin[q].h = "MarkAsRead" /\ qin[r].h = "MarkAsRead"
        /\ qin[q].user = qin[r].user
        /\ durable[q] = "ok" /\ durable[r] = "ok"
        /\ ChatOfMsg(qin[q].msg) = ChatOfMsg(qin[r].msg)
        /\ \A m \in msgDocs : m.chat = ChatOfMsg(qin[q].msg) => m.id = 0)
       => /\ qmod[q] = 0 \/ qmod[r] = 0
          /\ ~(q \in submitted /\ r \in submitted)

\* A MarkAsRead request marked a message and submitted the receipt, and a
\* second one of the same user found nothing to mark and was answered 200
\* without a broadcast.
C29_Witness ==
  \E q, r \in Reqs :
    /\ q # r
    /\ qin[q].h = "MarkAsRead" /\ qin[r].h = "MarkAsRead"
    /\ qin[q].user = qin[r].user
    /\ qmod[q] > 0 /\ q \in submitted
    /\ durable[r] = "ok" /\ qmod[r] = 0 /\ qresp[r] = 200 /\ r \notin submitted

====
